---- MODULE Spec2Model ----
(***************************************************************************)
(* A model of the Telegram WebApp worker (src/index.ts): the chunk         *)
(* splitter, the history reconstructor (mergeChunks), the webhook handler  *)
(* with its await points, and the signed history read.                     *)
(*                                                                         *)
(* Texts are sequences of one-character strings.  Timestamps are integers: *)
(* toISOString() of a four-digit year orders as the instant does, so the   *)
(* ORDER BY on created_at is modelled by integer comparison.               *)
(*                                                                         *)
(* Assumptions about the environment: the clock never goes back; a query   *)
(* or an insert takes effect in one step, at the await that issues it, and *)
(* may throw; fetch may throw; the store returns contents as written.      *)
(* A handler is a sequence of steps, one per await; handlers of different  *)
(* requests interleave at these steps.  The variable hist shows a history  *)
(* response in the state right after the request; any later step clears it.*)
(* The variables got, attempts and sent record what a handler received and *)
(* how many sendMessage calls it made and completed; no step reads them.   *)
(***************************************************************************)
EXTENDS Integers, Sequences, FiniteSets, TLC

\* ---------------------------------------------------------------- bounds
\* Number of webhook deliveries the model lets arrive.
NumEvents == 2
\* The wall clock runs over 0..MaxClock.
MaxClock == 1
\* The limit passed to splitIntoChunks by handleWebhook (3900 in the source),
\* scaled down so that every response still spans several chunks.
ChunkLimit == 2
\* Inputs of the pure-function specifications.
MaxTextLen == 4
MaxLimit == 3
MaxRows == 3

\* SQL NULL / JavaScript null and undefined, where an integer is expected.
Null == 0 - 1

Chars == {"a", "b"}
Chats == {"c1", "c2"}

Min(a, b) == IF a < b THEN a ELSE b

\* All sequences over S of length at most n.
SeqsUpTo(S, n) == UNION {[1..k -> S] : k \in 0..n}

\* Array.prototype.join(""): the concatenation of a sequence of texts.
RECURSIVE Join(_)
Join(ss) == IF ss = <<>> THEN <<>> ELSE Head(ss) \o Join(Tail(ss))

\* String.prototype.slice(a, b) for 0 <= a <= b: code units a .. min(b,len)-1.
Slice(text, a, b) == SubSeq(text, a + 1, Min(b, Len(text)))

\* ------------------------------------------------------- splitIntoChunks
\* The for loop of splitIntoChunks from index i on.
RECURSIVE SplitFrom(_, _, _)
SplitFrom(text, limit, i) ==
  IF i < Len(text)
  THEN <<Slice(text, i, i + limit)>> \o SplitFrom(text, limit, i + limit)
  ELSE <<>>

\* Mutant: the last, shorter piece is dropped (loop bound i + limit <= length).
RECURSIVE SplitFromDropTail(_, _, _)
SplitFromDropTail(text, limit, i) ==
  IF i + limit <= Len(text)
  THEN <<Slice(text, i, i + limit)>> \o SplitFromDropTail(text, limit, i + limit)
  ELSE <<>>

SplitDropTail(text, limit) == SplitFromDropTail(text, limit, 0)

\* Mutant: an empty text yields one empty piece (do-while instead of for).
SplitEmptyPiece(text, limit) ==
  IF text = <<>> THEN << <<>> >> ELSE SplitFrom(text, limit, 0)

splitIntoChunks(text, limit) == SplitFrom(text, limit, 0)

\* ----------------------------------------------------------- mergeChunks
\* A synthesized turn ({ role: "bot", content, created_at }).
BotTurn(content, at) == [role |-> "bot", content |-> content, created_at |-> at]

\* buffer[buffer.length-1]?.created_at: the buffer holds contents (strings),
\* and a string has no created_at property, so the read is undefined.
BufferedCreatedAt(buffer) == Null

\* State of the loop before the first record.
MergeInit == [result |-> <<>>, buffer |-> <<>>, lastRole |-> "none", currentGroup |-> Null]

\* One iteration of the loop body on record r; now is new Date().
MergeStep(st, r, now) ==
  IF r.role = "user"
  THEN LET at == IF st.buffer # <<>> /\ BufferedCreatedAt(st.buffer) # Null
                 THEN BufferedCreatedAt(st.buffer) ELSE now
           flushed == IF st.buffer # <<>>
                      THEN Append(st.result, BotTurn(Join(st.buffer), at))
                      ELSE st.result
       IN [result |-> Append(flushed, r), buffer |-> <<>>,
           lastRole |-> "user", currentGroup |-> r.group_id]
  ELSE IF st.lastRole = "user" \/ st.currentGroup # r.group_id
       THEN LET flushed == IF st.buffer # <<>>
                           THEN Append(st.result, BotTurn(Join(st.buffer), r.created_at))
                           ELSE st.result
            IN [result |-> flushed, buffer |-> <<r.content>>,
                lastRole |-> "bot", currentGroup |-> r.group_id]
       ELSE [result |-> st.result, buffer |-> Append(st.buffer, r.content),
             lastRole |-> "bot", currentGroup |-> r.group_id]

\* Mutant: a new run starts only after a user record (group ids are ignored).
MergeStepRoleOnly(st, r, now) ==
  IF r.role = "user"
  THEN MergeStep(st, r, now)
  ELSE IF st.lastRole = "user"
       THEN MergeStep(st, r, now)
       ELSE [result |-> st.result, buffer |-> Append(st.buffer, r.content),
             lastRole |-> "bot", currentGroup |-> r.group_id]

\* Mutant: a user record is emitted without flushing the buffer first.
MergeStepNoUserFlush(st, r, now) ==
  IF r.role = "user"
  THEN [result |-> Append(st.result, r), buffer |-> st.buffer,
        lastRole |-> "user", currentGroup |-> r.group_id]
  ELSE MergeStep(st, r, now)

\* Mutant: every assistant record starts a new buffer, also inside a run.
MergeStepNoAppend(st, r, now) ==
  IF r.role = "user"
  THEN MergeStep(st, r, now)
  ELSE MergeStep([st EXCEPT !.lastRole = "user"], r, now)

\* Mutant: a buffer flushed by an assistant record of a new run is stamped
\* with the time of the call.
MergeStepFlushNow(st, r, now) ==
  IF r.role = "user"
  THEN MergeStep(st, r, now)
  ELSE MergeStep(st, [r EXCEPT !.created_at = now], now)

\* The step mergeChunks applies to every record.
MergeBody(st, r, now) == MergeStep(st, r, now)

RECURSIVE MergeLoop(_, _, _, _)
MergeLoop(rows, i, st, now) ==
  IF i > Len(rows) THEN st
  ELSE MergeLoop(rows, i + 1, MergeBody(st, rows[i], now), now)

mergeChunks(rows, now) ==
  LET st == MergeLoop(rows, 1, MergeInit, now)
  IN IF st.buffer # <<>>
     THEN Append(st.result, BotTurn(Join(st.buffer), now))
     ELSE st.result

\* ------------------------------------------------------------ the store
\* A row of table messages as the queries of this worker see it; the row id
\* (AUTOINCREMENT) of a row is its position in the sequence store.
Row(chat, role, content, group, at) ==
  [chat_id |-> chat, role |-> role, content |-> content,
   group_id |-> group, created_at |-> at]

\* Mutant: the insert overwrites the newest row instead of adding one.
InsertOverwrite(s, row) ==
  IF s = <<>> THEN <<row>> ELSE [s EXCEPT ![Len(s)] = row]

\* runExec("INSERT INTO messages ..."): the row is added at the end.
Insert(s, row) == Append(s, row)

\* Row ids of the rows of one chat.
ChatIds(s, chat) == {i \in 1..Len(s) : s[i].chat_id = chat}

\* Mutant: the WHERE clause is missing, the maximum is taken over every chat.
MaxGroupAllChats(s, chat) ==
  IF s = <<>> THEN Null
  ELSE CHOOSE g \in {s[i].group_id : i \in 1..Len(s)} :
         \A i \in 1..Len(s) : s[i].group_id <= g

\* SELECT MAX(group_id) as mg ... WHERE chat_id = ?: NULL when no row matches.
MaxGroup(s, chat) ==
  IF ChatIds(s, chat) = {} THEN Null
  ELSE CHOOSE g \in {s[i].group_id : i \in ChatIds(s, chat)} :
         \A i \in ChatIds(s, chat) : s[i].group_id <= g

\* Mutant: the maximum is reused, not incremented.
NextGroupNoIncrement(mg) == IF mg # Null /\ mg # 0 THEN mg ELSE 1

\* (last[0] && last[0].mg) ? Number(last[0].mg) + 1 : 1
NextGroup(mg) == IF mg # Null /\ mg # 0 THEN mg + 1 ELSE 1

\* ORDER BY created_at ASC, id ASC: row id i comes before row id j.
Before(s, i, j) ==
  \/ s[i].created_at < s[j].created_at
  \/ s[i].created_at = s[j].created_at /\ i < j

\* The row ids in ids, in the order of ORDER BY created_at ASC, id ASC.
RECURSIVE SortIds(_, _)
SortIds(s, ids) ==
  IF ids = {} THEN <<>>
  ELSE LET first == CHOOSE i \in ids : \A j \in ids \ {i} : Before(s, i, j)
       IN <<first>> \o SortIds(s, ids \ {first})

\* The columns role, content, group_id, created_at of the rows ids, ordered.
SelectRows(s, ids) ==
  LET order == SortIds(s, ids)
  IN [k \in 1..Len(order) |->
        [role |-> s[order[k]].role, content |-> s[order[k]].content,
         group_id |-> s[order[k]].group_id, created_at |-> s[order[k]].created_at]]

\* Mutant: the WHERE clause is missing, the rows of every chat are returned.
SelectHistoryAllChats(s, chat) == SelectRows(s, 1..Len(s))

\* SELECT role, content, group_id, created_at FROM messages WHERE chat_id = ?
\* ORDER BY created_at ASC, id ASC
SelectHistory(s, chat) == SelectRows(s, ChatIds(s, chat))

\* ------------------------------------------------------ webhook payloads
\* The secret the worker is deployed with (README step 3).
BOT_TOKEN == "token"

\* Message texts a user sends in the model; <<>> stands for every falsy text
\* (absent, null, the empty string), which the handler does not tell apart.
UserTexts == {<<"a">>, <<"b">>}
NoText == <<>>

\* message.web_app_data: absent, JSON tagged user_message carrying text, or
\* any other data string (JSON of another type, or not JSON at all).
WebAppData ==
  {[kind |-> "absent", text |-> NoText]}
    \cup [kind : {"user_message"}, text : UserTexts \cup {NoText}]
    \cup [kind : {"other_json", "not_json"}, text : UserTexts]

\* message: chat is "" when the event carries no chat object.
Messages == [chat : Chats \cup {""}, text : UserTexts \cup {NoText}, web_app_data : WebAppData]
NoMessage == [chat |-> "", text |-> NoText, web_app_data |-> [kind |-> "absent", text |-> NoText]]

\* The request body: not JSON, or an update with message or edited_message.
Payloads ==
  {[json |-> FALSE, message |-> NoMessage, edited_message |-> NoMessage, has |-> "none"]}
    \cup {[json |-> TRUE, message |-> NoMessage, edited_message |-> NoMessage, has |-> "none"]}
    \cup {[json |-> TRUE, message |-> m, edited_message |-> NoMessage, has |-> "message"] : m \in Messages}
    \cup {[json |-> TRUE, message |-> NoMessage, edited_message |-> m, has |-> "edited_message"] : m \in Messages}

\* Lines 165-176: the text of the message, <<>> when there is none.
ExtractText(message) ==
  IF message.web_app_data.kind # "absent"
  THEN message.web_app_data.text
  ELSE message.text

\* The stub answer: a fixed prefix, the user's text, a fixed tail.  The tail
\* of the source is 4500 characters, longer than the chunk limit; here it is
\* as long as the scaled limit.
AnswerPrefix == <<"E">>
AnswerTail == [i \in 1..ChunkLimit |-> "D"]
demoAnswer(text) == AnswerPrefix \o text \o AnswerTail

\* The chunks handleWebhook sends for a user text.
Chunks(text) == splitIntoChunks(demoAnswer(text), ChunkLimit)

\* ------------------------------------------------------- history requests
\* The user field of initData: absent, not JSON, or a JSON object whose id
\* is a chat ("" when the object has no usable id).
UserFields ==
  [json : {"absent", "invalid"}, id : {""}] \cup [json : {"object"}, id : {"", "c1"}]
NoUser == [json |-> "absent", id |-> ""]

\* The fields of initData the signature covers (every field but hash).
SignedFields == [user : UserFields, chat_instance : {"", "c2"}]

\* HMAC-SHA256 under the key derived from token, over the data-check string
\* of the fields: idealised as a collision-free tag of (token, fields).
Hmac(token, fields) == [present |-> TRUE, key |-> token, data |-> fields]
NoHash == [present |-> FALSE, key |-> "", data |-> [user |-> NoUser, chat_instance |-> ""]]

\* A payload another party could have issued for the first chat.
OtherFields == [user |-> [json |-> "object", id |-> "c1"], chat_instance |-> ""]

\* The initData query parameter: the empty string, or fields with a hash
\* that is missing, genuine, made with another token, or made for other fields.
NoInitData == [empty |-> TRUE, fields |-> [user |-> NoUser, chat_instance |-> ""], hash |-> NoHash]
InitDatas ==
  {NoInitData}
    \cup UNION {{[empty |-> FALSE, fields |-> f, hash |-> h] :
                   h \in {NoHash, Hmac(BOT_TOKEN, f), Hmac("forged", f),
                          Hmac(BOT_TOKEN, OtherFields)}} : f \in SignedFields}

\* The payload the platform issues for a chat: the user's id, or (for the
\* second chat) only a chat_instance.
Issued(chat) ==
  LET f == IF chat = "c1" THEN [user |-> [json |-> "object", id |-> "c1"], chat_instance |-> ""]
           ELSE [user |-> NoUser, chat_instance |-> chat]
  IN [empty |-> FALSE, fields |-> f, hash |-> Hmac(BOT_TOKEN, f)]

\* The requests a client of the WebApp makes.
ClientInitDatas == {NoInitData} \cup {Issued(c) : c \in Chats}

\* checkWebAppSignature: false without a hash, else computed === receivedHash.
checkWebAppSignature(token, initData) ==
  IF ~initData.hash.present THEN FALSE
  ELSE Hmac(token, initData.fields) = initData.hash

\* Line 148: userJson?.id ? String(userJson.id) : (params["chat_instance"] || "")
HistoryChatId(fields) ==
  IF fields.user.json = "object" /\ fields.user.id # ""
  THEN fields.user.id
  ELSE fields.chat_instance

\* A Response of handleRequest to GET /api/history.  read tells whether the
\* query on the store was issued while the request was handled.
HistoryResponse(status, error, messages, read) ==
  [status |-> status, error |-> error, messages |-> messages, read |-> read]

\* handleHistory with the catch of handleRequest around it.  dbOk: the store
\* answers the query (otherwise runAll throws).
HistoryChecked(initData, s, now, dbOk) ==
  IF initData.empty
  THEN HistoryResponse(400, "initData required", <<>>, FALSE)
  ELSE IF ~checkWebAppSignature(BOT_TOKEN, initData)
  THEN HistoryResponse(401, "Bad signature", <<>>, FALSE)
  ELSE IF initData.fields.user.json = "invalid"
  THEN HistoryResponse(500, "SyntaxError", <<>>, FALSE)
  ELSE IF HistoryChatId(initData.fields) = ""
  THEN HistoryResponse(400, "chat_id missing", <<>>, FALSE)
  ELSE IF ~dbOk
  THEN HistoryResponse(500, "store unavailable", <<>>, TRUE)
  ELSE HistoryResponse(200, "", mergeChunks(SelectHistory(s, HistoryChatId(initData.fields)), now), TRUE)

\* Mutant: the rows are fetched and merged before the payload is checked, and
\* returned whenever a chat can be resolved.
HistoryUnchecked(initData, s, now, dbOk) ==
  IF ~initData.empty /\ initData.fields.user.json # "invalid"
     /\ HistoryChatId(initData.fields) # "" /\ dbOk
  THEN HistoryResponse(200, "", mergeChunks(SelectHistory(s, HistoryChatId(initData.fields)), now), TRUE)
  ELSE HistoryChecked(initData, s, now, dbOk)

handleHistory(initData, s, now, dbOk) == HistoryChecked(initData, s, now, dbOk)

\* ------------------------------------------------------------- the state
Events == 1..NumEvents

VARIABLES
  store,      \* table messages, in row-id order
  origin,     \* history variable: origin[i] is the webhook event that inserted row i
  clock,      \* what new Date() returns
  pc,         \* per webhook event: the await point its handler is at
  chatId,     \* per event: chatId of handleWebhook
  text,       \* per event: text of handleWebhook
  nextGroup,  \* per event: nextGroup of handleWebhook
  chunkNo,    \* per event: position in chunks of the chunk being sent or saved
  resp,       \* per event: the Response of handleRequest
  got,        \* per event: what the request body received carried
  attempts,   \* per event: sendMessage calls made for the chunk in the loop body
  sent,       \* per event: chunks for which a sendMessage call completed
  hist,       \* the history request just answered, with its Response
  call        \* a call of splitIntoChunks or mergeChunks on drawn arguments

vars == <<store, origin, clock, pc, chatId, text, nextGroup, chunkNo, resp, got, attempts, sent, hist, call>>
webhookVars == <<pc, chatId, text, nextGroup, chunkNo, resp, got, attempts, sent>>

NoCall == [fn |-> "none"]
NoHist == [served |-> FALSE]
Pending == [status |-> 0, body |-> "pending"]
WebhookResponse(status, body) == [status |-> status, body |-> body]

InitProgram ==
  /\ store = <<>>
  /\ origin = <<>>
  /\ clock = 0
  /\ pc = [e \in Events |-> "new"]
  /\ chatId = [e \in Events |-> ""]
  /\ text = [e \in Events |-> NoText]
  /\ nextGroup = [e \in Events |-> Null]
  /\ chunkNo = [e \in Events |-> 0]
  /\ resp = [e \in Events |-> Pending]
  /\ got = [e \in Events |-> "nothing"]
  /\ attempts = [e \in Events |-> 0]
  /\ sent = [e \in Events |-> 0]
  /\ hist = NoHist

Init == InitProgram /\ call = NoCall

\* Mutant: handleRequest has no catch; a handler that throws never answers.
FinishUncaught(e, status, body) ==
  /\ pc' = [pc EXCEPT ![e] = IF status = 500 THEN "crashed" ELSE "done"]
  /\ resp' = [resp EXCEPT ![e] = IF status = 500 THEN Pending
                                 ELSE WebhookResponse(status, body)]

\* The handler of event e returns (or throws into the catch of handleRequest).
Finish(e, status, body) ==
  /\ pc' = [pc EXCEPT ![e] = "done"]
  /\ resp' = [resp EXCEPT ![e] = WebhookResponse(status, body)]

\* Time passes.
Tick ==
  /\ clock < MaxClock
  /\ clock' = clock + 1
  /\ hist' = NoHist
  /\ UNCHANGED <<store, origin, webhookVars, call>>

\* What the body of a webhook request carries: no JSON at all, an update
\* with a text to answer (lines 165-176 find one in a message or an edited
\* message), or an update without one.
Carried(payload) ==
  LET message == IF payload.has = "message" THEN payload.message
                 ELSE payload.edited_message
  IN IF ~payload.json THEN "not json"
     ELSE IF payload.has # "none" /\ ExtractText(message) # NoText THEN "text"
     ELSE "no text"

\* POST /telegram/webhook arrives (events are numbered in arrival order);
\* lines 158-177, up to the first query.
Receive(e) ==
  /\ pc[e] = "new"
  /\ \A o \in Events : o < e => pc[o] # "new"
  /\ \E payload \in Payloads :
       /\ got' = [got EXCEPT ![e] = Carried(payload)]
       /\ LET message == IF payload.has = "message" THEN payload.message
                         ELSE payload.edited_message
          IN IF BOT_TOKEN = ""
             THEN Finish(e, 200, "skipped") /\ UNCHANGED <<chatId, text>>
             ELSE IF ~payload.json \/ payload.has = "none"
             THEN Finish(e, 200, "ok") /\ UNCHANGED <<chatId, text>>
             ELSE IF message.chat = ""
             THEN Finish(e, 500, "TypeError") /\ UNCHANGED <<chatId, text>>
             ELSE IF ExtractText(message) = NoText
             THEN Finish(e, 200, "ok") /\ UNCHANGED <<chatId, text>>
             ELSE /\ pc' = [pc EXCEPT ![e] = "read"]
                  /\ chatId' = [chatId EXCEPT ![e] = message.chat]
                  /\ text' = [text EXCEPT ![e] = ExtractText(message)]
                  /\ UNCHANGED resp
  /\ hist' = NoHist
  /\ UNCHANGED <<store, origin, clock, nextGroup, chunkNo, attempts, sent, call>>

\* Mutant: a failed MAX query is taken for "no rows" and the handler goes on
\* with group id 1.
ReadMaxDefaults(e) ==
  /\ pc[e] = "read"
  /\ \/ nextGroup' = [nextGroup EXCEPT ![e] = NextGroup(MaxGroup(store, chatId[e]))]
     \/ nextGroup' = [nextGroup EXCEPT ![e] = 1]
  /\ pc' = [pc EXCEPT ![e] = "insert"]
  /\ hist' = NoHist
  /\ UNCHANGED <<store, origin, clock, chatId, text, chunkNo, resp, got, attempts, sent, call>>

\* Lines 180-181: the MAX(group_id) query and nextGroup; the query may throw.
ReadMax(e) ==
  /\ pc[e] = "read"
  /\ \/ /\ nextGroup' = [nextGroup EXCEPT ![e] = NextGroup(MaxGroup(store, chatId[e]))]
        /\ pc' = [pc EXCEPT ![e] = "insert"]
        /\ UNCHANGED resp
     \/ /\ Finish(e, 500, "store unavailable")
        /\ UNCHANGED nextGroup
  /\ hist' = NoHist
  /\ UNCHANGED <<store, origin, clock, chatId, text, chunkNo, got, attempts, sent, call>>

\* Line 184: the user row is inserted; lines 188-192: the answer is split and
\* the loop over the chunks starts.  The insert may throw.
InsertUser(e) ==
  /\ pc[e] = "insert"
  /\ UNCHANGED attempts
  /\ \/ /\ store' = Insert(store, Row(chatId[e], "user", text[e], nextGroup[e], clock))
        /\ origin' = Append(origin, e)
        /\ IF Chunks(text[e]) = <<>>
           THEN Finish(e, 200, "ok") /\ UNCHANGED chunkNo
           ELSE /\ pc' = [pc EXCEPT ![e] = "send"]
                /\ chunkNo' = [chunkNo EXCEPT ![e] = 1]
                /\ UNCHANGED resp
     \/ /\ Finish(e, 500, "store unavailable")
        /\ UNCHANGED <<store, origin, chunkNo>>
  /\ hist' = NoHist
  /\ UNCHANGED <<clock, chatId, text, nextGroup, got, sent, call>>

\* Lines 194-199: the formatted send of the current chunk; fetch may throw.
SendChunk(e) ==
  /\ pc[e] = "send"
  /\ attempts' = [attempts EXCEPT ![e] = attempts[e] + 1]
  /\ \/ pc' = [pc EXCEPT ![e] = "persist"] /\ sent' = [sent EXCEPT ![e] = sent[e] + 1]
     \/ pc' = [pc EXCEPT ![e] = "fallback"] /\ UNCHANGED sent
  /\ hist' = NoHist
  /\ UNCHANGED <<store, origin, clock, chatId, text, nextGroup, chunkNo, resp, got, call>>

\* Mutant: a throw of the plain send is swallowed and the chunk is saved.
SendFallbackSwallows(e) ==
  /\ pc[e] = "fallback"
  /\ attempts' = [attempts EXCEPT ![e] = attempts[e] + 1]
  /\ pc' = [pc EXCEPT ![e] = "persist"]
  /\ \/ sent' = [sent EXCEPT ![e] = sent[e] + 1]
     \/ UNCHANGED sent
  /\ hist' = NoHist
  /\ UNCHANGED <<store, origin, clock, chatId, text, nextGroup, chunkNo, resp, got, call>>

\* Lines 200-206: the plain send in the catch block; if it throws, so does
\* the handler.
SendFallback(e) ==
  /\ pc[e] = "fallback"
  /\ attempts' = [attempts EXCEPT ![e] = attempts[e] + 1]
  /\ \/ /\ pc' = [pc EXCEPT ![e] = "persist"]
        /\ sent' = [sent EXCEPT ![e] = sent[e] + 1]
        /\ UNCHANGED resp
     \/ Finish(e, 500, "send failed") /\ UNCHANGED sent
  /\ hist' = NoHist
  /\ UNCHANGED <<store, origin, clock, chatId, text, nextGroup, chunkNo, got, call>>

\* Line 208: the chunk row is inserted; the loop goes on to the next chunk or
\* the handler returns (line 211).  The insert may throw.
PersistChunk(e) ==
  /\ pc[e] = "persist"
  /\ attempts' = [attempts EXCEPT ![e] = 0]
  /\ \/ /\ store' = Insert(store, Row(chatId[e], "bot", Chunks(text[e])[chunkNo[e]], nextGroup[e], clock))
        /\ origin' = Append(origin, e)
        /\ IF chunkNo[e] = Len(Chunks(text[e]))
           THEN Finish(e, 200, "ok") /\ UNCHANGED chunkNo
           ELSE /\ pc' = [pc EXCEPT ![e] = "send"]
                /\ chunkNo' = [chunkNo EXCEPT ![e] = chunkNo[e] + 1]
                /\ UNCHANGED resp
     \/ /\ Finish(e, 500, "store unavailable")
        /\ UNCHANGED <<store, origin, chunkNo>>
  /\ hist' = NoHist
  /\ UNCHANGED <<clock, chatId, text, nextGroup, got, sent, call>>

\* GET /api/history?initData=...: the whole request; its only access to the
\* store is the one SELECT.  hist holds one answered request at a time; a
\* request changes nothing else, so this loses no reachable state.
History(requests) ==
  /\ hist = NoHist
  /\ \E initData \in requests, dbOk \in BOOLEAN :
       hist' = [served |-> TRUE, initData |-> initData,
                response |-> handleHistory(initData, store, clock, dbOk)]
  /\ UNCHANGED <<store, origin, clock, webhookVars, call>>

\* Webhook handlers run concurrently: any handler may take its next step.
Next ==
  \/ Tick
  \/ History(ClientInitDatas)
  \/ \E e \in Events :
       \/ Receive(e)
       \/ ReadMax(e)
       \/ InsertUser(e)
       \/ SendChunk(e)
       \/ SendFallback(e)
       \/ PersistChunk(e)

Spec == Init /\ [][Next]_vars

\* Every other handler has returned or has not started.
OthersIdle(e) == \A o \in Events \ {e} : pc[o] \in {"new", "done"}

\* Webhook events handled one after another: an event arrives only when no
\* other handler is running.
SeqNext ==
  \/ Tick
  \/ History(ClientInitDatas)
  \/ \E e \in Events :
       \/ OthersIdle(e) /\ Receive(e)
       \/ ReadMax(e)
       \/ InsertUser(e)
       \/ SendChunk(e)
       \/ SendFallback(e)
       \/ PersistChunk(e)

SeqSpec == Init /\ [][SeqNext]_vars

\* Handlers overlap, but a handler computes its group id only when no other
\* handler is between its MAX query and its user insert.
SerialGroupNext ==
  \/ Tick
  \/ History(ClientInitDatas)
  \/ \E e \in Events :
       \/ Receive(e)
       \/ (\A o \in Events \ {e} : pc[o] # "insert") /\ ReadMax(e)
       \/ InsertUser(e)
       \/ SendChunk(e)
       \/ SendFallback(e)
       \/ PersistChunk(e)

SerialGroupSpec == Init /\ [][SerialGroupNext]_vars

\* Sequential webhook handling, history requests with every kind of initData.
ReadNext ==
  \/ Tick
  \/ History(InitDatas)
  \/ \E e \in Events :
       \/ OthersIdle(e) /\ Receive(e)
       \/ ReadMax(e)
       \/ InsertUser(e)
       \/ SendChunk(e)
       \/ SendFallback(e)
       \/ PersistChunk(e)

ReadSpec == Init /\ [][ReadNext]_vars

\* The step the handler of event e takes when the promise it awaits settles.
Resume(e) ==
  \/ ReadMax(e)
  \/ InsertUser(e)
  \/ SendChunk(e)
  \/ SendFallback(e)
  \/ PersistChunk(e)

\* As ReadSpec, and every promise a handler awaits settles (the query, the
\* insert or the fetch returns or throws), so a handler that can resume
\* eventually does.
FairReadSpec == ReadSpec /\ \A e \in Events : WF_vars(Resume(e))

\* ------------------------------------- pure functions on drawn arguments
programVars == <<store, origin, clock, webhookVars, hist>>

SplitTexts == SeqsUpTo(Chars, MaxTextLen)

InitSplit ==
  /\ InitProgram
  /\ call \in [fn : {"split"}, text : SplitTexts, limit : 1..MaxLimit,
               returned : {FALSE}, parts : {<<>>}]

CallSplit ==
  /\ call.fn = "split"
  /\ ~call.returned
  /\ call' = [call EXCEPT !.returned = TRUE,
                          !.parts = splitIntoChunks(call.text, call.limit)]
  /\ UNCHANGED programVars

SplitSpec == InitSplit /\ [][CallSplit]_vars

\* Ordered logs of one conversation: any roles, group ids and contents (the
\* empty content included); created_at follows the position.
LogEntries == [role : {"user", "bot"}, content : {<<>>, <<"a">>, <<"b">>}, group_id : 1..2]
Stamp(entries) ==
  [i \in 1..Len(entries) |->
     [role |-> entries[i].role, content |-> entries[i].content,
      group_id |-> entries[i].group_id, created_at |-> i]]
Logs == {Stamp(es) : es \in SeqsUpTo(LogEntries, MaxRows)}

\* The logs of the reconstructor examples of spec.md, section 8.
MergeExample ==
  Stamp(<<[role |-> "user", content |-> <<"h", "i">>, group_id |-> 1],
          [role |-> "bot", content |-> <<"a">>, group_id |-> 1],
          [role |-> "bot", content |-> <<"b">>, group_id |-> 1],
          [role |-> "user", content |-> <<"y", "o">>, group_id |-> 2],
          [role |-> "bot", content |-> <<"c">>, group_id |-> 2]>>)
NonMergeExample ==
  Stamp(<<[role |-> "bot", content |-> <<"a">>, group_id |-> 1],
          [role |-> "user", content |-> <<"x">>, group_id |-> 2],
          [role |-> "bot", content |-> <<"b">>, group_id |-> 1]>>)

InitMerge ==
  /\ InitProgram
  /\ \E rows \in Logs \cup {MergeExample, NonMergeExample} :
       call = [fn |-> "merge", rows |-> rows, now |-> Len(rows) + 1,
               returned |-> FALSE, turns |-> <<>>]

CallMerge ==
  /\ call.fn = "merge"
  /\ ~call.returned
  /\ call' = [call EXCEPT !.returned = TRUE,
                          !.turns = mergeChunks(call.rows, call.now)]
  /\ UNCHANGED programVars

MergeSpec == InitMerge /\ [][CallMerge]_vars

\* ================================================================ claims

\* ---- C4 (SplitSpec)
\* C4: for every text and every limit L >= 1, splitIntoChunks(text, L)
\* returns pieces whose concatenation in order is text, each piece non-empty
\* and of length <= L, and each piece but the last of length exactly L.
SplitRoundTrip ==
  (call.fn = "split" /\ call.returned) =>
     /\ Join(call.parts) = call.text
     /\ \A i \in 1..Len(call.parts) :
          /\ call.parts[i] # <<>>
          /\ Len(call.parts[i]) <= call.limit
          /\ i < Len(call.parts) => Len(call.parts[i]) = call.limit

\* A split into several pieces whose last piece is shorter than the limit.
SplitRoundTripWitness ==
  /\ call.fn = "split" /\ call.returned
  /\ Len(call.parts) >= 2
  /\ Len(call.parts[Len(call.parts)]) < call.limit

\* ---- C5 (SplitSpec)
\* C5 as stated: splitIntoChunks("", L) is the empty sequence, and for every
\* text with len(text) <= L the result is the one-element sequence [text].
SplitBoundaryAsStated ==
  (call.fn = "split" /\ call.returned) =>
     /\ call.text = <<>> => call.parts = <<>>
     /\ Len(call.text) <= call.limit => call.parts = <<call.text>>

\* C5, amended: splitIntoChunks("", L) is the empty sequence, and for every
\* non-empty text with len(text) <= L the result is [text].
SplitBoundary ==
  (call.fn = "split" /\ call.returned) =>
     /\ call.text = <<>> => call.parts = <<>>
     /\ (call.text # <<>> /\ Len(call.text) <= call.limit) => call.parts = <<call.text>>

\* A non-empty text no longer than the limit has been split.
SplitBoundaryWitness ==
  /\ call.fn = "split" /\ call.returned
  /\ call.text # <<>>
  /\ Len(call.text) = call.limit
  /\ Len(call.parts) = 1

\* ---- C2 (MergeSpec)
\* Row i begins a run: an assistant row that is first, follows a user row,
\* or follows an assistant row of another group.
RunStart(rows, i) ==
  /\ rows[i].role = "bot"
  /\ \/ i = 1
     \/ rows[i - 1].role = "user"
     \/ rows[i - 1].group_id # rows[i].group_id

\* The last row of the run that begins at row i.
RunEnd(rows, i) ==
  CHOOSE j \in i..Len(rows) :
    /\ \A k \in (i + 1)..j : ~RunStart(rows, k) /\ rows[k].role = "bot"
    /\ j = Len(rows) \/ rows[j + 1].role = "user" \/ RunStart(rows, j + 1)

\* The rows that open a turn, and the place of the turn of such a row.
TurnStarts(rows) ==
  {i \in 1..Len(rows) : rows[i].role = "user" \/ RunStart(rows, i)}
TurnOf(rows, i) == Cardinality({j \in TurnStarts(rows) : j <= i})

\* C2: mergeChunks returns, in log order, one turn per user record, equal to
\* that record, and one assistant turn per maximal run of consecutive
\* assistant records of one group_id, whose content is the concatenation of
\* the run's contents; so the empty log gives no turn.
MergeIsRunwise ==
  (call.fn = "merge" /\ call.returned) =>
     LET rows == call.rows
         turns == call.turns
     IN /\ Len(turns) = Cardinality(TurnStarts(rows))
        /\ \A i \in TurnStarts(rows) :
             IF rows[i].role = "user"
             THEN turns[TurnOf(rows, i)] = rows[i]
             ELSE /\ turns[TurnOf(rows, i)].role = "bot"
                  /\ turns[TurnOf(rows, i)].content =
                       Join([k \in 1..(RunEnd(rows, i) - i + 1) |-> rows[i + k - 1].content])

\* The merge example of spec.md: five records become the four turns
\* user "hi", assistant "ab", user "yo", assistant "c".
MergeIsRunwiseWitness ==
  /\ call.fn = "merge" /\ call.returned
  /\ call.rows = MergeExample
  /\ Len(call.turns) = 4
  /\ call.turns[2].content = <<"a", "b">>
  /\ call.turns[4].content = <<"c">>

\* ---- C3 (MergeSpec)
\* What a turn shows: a user record as it is, an assistant turn by content.
Shown(turns) ==
  [k \in 1..Len(turns) |->
     IF turns[k].role = "user" THEN turns[k]
     ELSE [role |-> "bot", content |-> turns[k].content]]

\* C3: a user record is a hard boundary of mergeChunks: the turns of a log
\* are the turns of the rows before the user record, the user record, and
\* the turns of the rows after it, so no assistant turn holds records from
\* both sides of a user record, whatever their group ids.
MergeStopsAtUser ==
  (call.fn = "merge" /\ call.returned) =>
     \A u \in 1..Len(call.rows) :
       call.rows[u].role = "user" =>
         Shown(call.turns) =
           Shown(mergeChunks(SubSeq(call.rows, 1, u - 1), call.now))
             \o <<call.rows[u]>>
             \o Shown(mergeChunks(SubSeq(call.rows, u + 1, Len(call.rows)), call.now))

\* The non-merge example of spec.md: "a", "x", "b" stay three turns.
MergeStopsAtUserWitness ==
  /\ call.fn = "merge" /\ call.returned
  /\ call.rows = NonMergeExample
  /\ Len(call.turns) = 3
  /\ call.turns[1].content = <<"a">>
  /\ call.turns[3].content = <<"b">>

\* ---- C1 (SeqSpec)
\* The events that got as far as the group-id query for chat c; events are
\* numbered in arrival order.
Answered(c) == {e \in Events : chatId[e] = c}
NthAnswered(c, k) ==
  CHOOSE e \in Answered(c) : Cardinality({o \in Answered(c) : o <= e}) = k

\* C1: with events handled one after another, once every event of a chat
\* has run to completion a history read of that chat returns, per user
\* message in arrival order, a user turn with the message's text followed by
\* exactly one assistant turn whose content is the whole generated answer.
HistoryRoundTrip ==
  (hist.served /\ hist.response.status = 200) =>
     LET c == HistoryChatId(hist.initData.fields)
         n == Cardinality(Answered(c))
         turns == hist.response.messages
     IN (\A e \in Answered(c) : pc[e] = "done" /\ resp[e].status = 200) =>
          /\ Len(turns) = 2 * n
          /\ \A k \in 1..n :
               /\ turns[2 * k - 1].role = "user"
               /\ turns[2 * k - 1].content = text[NthAnswered(c, k)]
               /\ turns[2 * k].role = "bot"
               /\ turns[2 * k].content = demoAnswer(text[NthAnswered(c, k)])

\* Two messages of one chat were answered in several chunks each, rows of
\* another time stamp among them, and the history read shows four turns.
HistoryRoundTripWitness ==
  /\ hist.served /\ hist.response.status = 200
  /\ Len(hist.response.messages) = 4
  /\ \A e \in Events : pc[e] = "done" /\ resp[e].status = 200
                       /\ chatId[e] = HistoryChatId(hist.initData.fields)
                       /\ Len(Chunks(text[e])) >= 2
  /\ \E i, j \in 1..Len(store) : store[i].created_at # store[j].created_at

\* ---- C6 (Spec)
\* C6: within a conversation the group_id values of the user records
\* strictly increase with insertion order (so no two are equal).
UserGroupIdsIncrease ==
  \A i, j \in 1..Len(store) :
    (i < j /\ store[i].role = "user" /\ store[j].role = "user"
       /\ store[i].chat_id = store[j].chat_id)
      => store[i].group_id < store[j].group_id

\* ---- C7 (SerialGroupSpec)
\* C7: when no handler computes its group id between another handler's MAX
\* query and user insert, the computed id is 1 for a conversation without
\* records and one plus the largest stored group_id otherwise, and the user
\* records of a conversation carry strictly increasing group ids.
GroupIdIsMaxPlusOne ==
  /\ \A e \in Events :
       pc[e] = "insert" =>
         LET ids == ChatIds(store, chatId[e])
         IN IF ids = {} THEN nextGroup[e] = 1
            ELSE /\ \E i \in ids : nextGroup[e] = store[i].group_id + 1
                 /\ \A i \in ids : store[i].group_id < nextGroup[e]
  /\ UserGroupIdsIncrease

\* A second message of a chat got group id 2 while the answer to the first
\* was still being sent.
GroupIdIsMaxPlusOneWitness ==
  \E e, o \in Events :
    /\ pc[e] = "done" /\ resp[e].status = 200 /\ nextGroup[e] = 2
    /\ chatId[o] = chatId[e] /\ nextGroup[o] = 1
    /\ \E i, j \in 1..Len(store) :
         /\ i < j
         /\ origin[i] = e /\ store[i].role = "user"
         /\ origin[j] = o /\ store[j].role = "bot"

\* ---- C8 (Spec)
\* The row ids of the assistant records event e inserted, in ascending order.
ChunkRows(e) == SortIds(store, {i \in 1..Len(store) : origin[i] = e /\ store[i].role = "bot"})

\* The assistant records of an event are, in insertion order, the first
\* chunks of its answer, tagged with its chat and its group id.
ChunksInOrder ==
  \A e \in Events :
    /\ Len(ChunkRows(e)) <= Len(Chunks(text[e]))
    /\ \A k \in 1..Len(ChunkRows(e)) :
         /\ store[ChunkRows(e)[k]].content = Chunks(text[e])[k]
         /\ store[ChunkRows(e)[k]].group_id = nextGroup[e]
         /\ store[ChunkRows(e)[k]].chat_id = chatId[e]
         /\ k > 1 => ChunkRows(e)[k - 1] < ChunkRows(e)[k]

\* C8: every assistant record answers the single user record with its
\* (conversation, group_id), which was inserted before it by the same event;
\* and the assistant records of an event are a prefix of its chunks, in
\* chunk order, with the event's group id.
AssistantRowsAnswerOneUserRow ==
  /\ \A i \in 1..Len(store) :
       store[i].role = "bot" =>
         LET users == {j \in 1..Len(store) :
                         /\ store[j].role = "user"
                         /\ store[j].chat_id = store[i].chat_id
                         /\ store[j].group_id = store[i].group_id}
         IN /\ Cardinality(users) = 1
            /\ \A j \in users : j < i /\ origin[j] = origin[i]
  /\ ChunksInOrder

\* ---- C9 (ReadSpec)
\* The hash of initData is the HMAC of its other fields under the bot token.
SignatureVerifies(d) == d.hash.present /\ d.hash = Hmac(BOT_TOKEN, d.fields)

\* No user id and no chat_instance can be read from the fields.
Unresolvable(f) == ~(f.user.json = "object" /\ f.user.id # "") /\ f.chat_instance = ""

NothingReturned(r) == ~r.read /\ r.messages = <<>> /\ r.status # 200

\* C9 as stated: turns are returned only for a present payload whose
\* signature verifies; a missing payload reports "initData required", else
\* a signature mismatch reports "Bad signature", else a payload without
\* resolvable conversation identity reports "chat_id missing"; on each of
\* these outcomes the store is not read and no turn is returned.
HistoryChecksAsStated ==
  hist.served =>
    LET d == hist.initData
        r == hist.response
    IN /\ (r.status = 200 \/ r.messages # <<>>) => (~d.empty /\ SignatureVerifies(d))
       /\ d.empty => (r.error = "initData required" /\ NothingReturned(r))
       /\ (~d.empty /\ ~SignatureVerifies(d)) => (r.error = "Bad signature" /\ NothingReturned(r))
       /\ (~d.empty /\ SignatureVerifies(d) /\ Unresolvable(d.fields))
            => (r.error = "chat_id missing" /\ NothingReturned(r))

\* C9, amended: as stated, but the third report is given when the user field
\* is absent or parses as JSON; a verified payload whose user field is not
\* JSON ends in a 500 response before the identity is resolved, again with
\* the store not read and no turn returned.
HistoryChecksInOrder ==
  hist.served =>
    LET d == hist.initData
        r == hist.response
    IN /\ (r.status = 200 \/ r.messages # <<>>) => (~d.empty /\ SignatureVerifies(d))
       /\ d.empty => (r.error = "initData required" /\ NothingReturned(r))
       /\ (~d.empty /\ ~SignatureVerifies(d)) => (r.error = "Bad signature" /\ NothingReturned(r))
       /\ (~d.empty /\ SignatureVerifies(d) /\ d.fields.user.json # "invalid"
             /\ Unresolvable(d.fields))
            => (r.error = "chat_id missing" /\ NothingReturned(r))
       /\ (~d.empty /\ SignatureVerifies(d) /\ d.fields.user.json = "invalid")
            => (r.status = 500 /\ NothingReturned(r))

\* A payload that is neither verified nor resolvable was refused for its
\* signature while the store held rows.
HistoryChecksInOrderWitness ==
  /\ hist.served
  /\ ~hist.initData.empty
  /\ ~SignatureVerifies(hist.initData)
  /\ Unresolvable(hist.initData.fields)
  /\ hist.response.error = "Bad signature"
  /\ store # <<>>

\* ---- C10 (Spec)
\* C10: every step leaves the rows already stored as they are, in place (the
\* store before the step is a prefix of the store after it), and a history
\* read leaves the store unchanged.
AppendOnly ==
  [][/\ Len(store) <= Len(store')
     /\ SubSeq(store', 1, Len(store)) = store
     /\ (hist'.served /\ hist' # hist) => store' = store]_vars

\* Rows were stored, a handler failed after storing some, and a history
\* read was answered.
AppendOnlyWitness ==
  /\ Len(store) >= 3
  /\ \E e \in Events : pc[e] = "done" /\ resp[e].status = 500 /\ chunkNo[e] >= 1
  /\ hist.served /\ hist.response.status = 200

\* ---- C11 (Spec)
\* The rows an event's handler has stored.
Persisted(e) == {i \in 1..Len(store) : origin[i] = e}

\* An event whose body carried no text leaves no trace in the store: its
\* handler has returned without a group id, a row or a send.
EventsWithoutTextLeaveNoTrace ==
  \A e \in Events :
    got[e] \in {"no text", "not json"} =>
      /\ pc[e] = "done"
      /\ nextGroup[e] = Null
      /\ Persisted(e) = {}
      /\ attempts[e] = 0 /\ sent[e] = 0

\* C11: a webhook event whose update carries no text (no message, or a
\* message with neither text nor web-app data) is answered with success, and
\* its handler computes no group id, stores no row and sends no chunk.
EventsWithoutTextAcknowledged ==
  \A e \in Events :
    got[e] \in {"no text", "not json"} =>
      /\ resp[e] = WebhookResponse(200, "ok")
      /\ nextGroup[e] = Null
      /\ Persisted(e) = {}
      /\ attempts[e] = 0 /\ sent[e] = 0

\* ---- C12 (MergeSpec)
\* C12: when a user record flushes a non-empty buffer, the synthesized
\* assistant turn carries the created_at of the last buffered record (the
\* last record of the run the user record ends), not the current time.
UserFlushCarriesLastChunkTime ==
  (call.fn = "merge" /\ call.returned) =>
     LET rows == call.rows
     IN \A i \in 1..Len(rows) :
          (RunStart(rows, i) /\ RunEnd(rows, i) < Len(rows)
             /\ rows[RunEnd(rows, i) + 1].role = "user")
            => call.turns[TurnOf(rows, i)].created_at = rows[RunEnd(rows, i)].created_at

\* What the code does instead: the turn a user record flushes carries the
\* time of the call.
UserFlushCarriesCallTime ==
  (call.fn = "merge" /\ call.returned) =>
     LET rows == call.rows
     IN \A i \in 1..Len(rows) :
          (RunStart(rows, i) /\ RunEnd(rows, i) < Len(rows)
             /\ rows[RunEnd(rows, i) + 1].role = "user")
            => call.turns[TurnOf(rows, i)].created_at = call.now

\* ---- C13 (MergeSpec)
\* A non-empty log with assistant records only.
AssistantOnly(rows) == rows # <<>> /\ \A i \in 1..Len(rows) : rows[i].role = "bot"

\* The contents of the rows, in order.
Contents(rows) == [i \in 1..Len(rows) |-> rows[i].content]

\* C13 as stated: every non-empty log with assistant records only gives
\* exactly one synthesized turn, the concatenation of all contents in order.
AssistantOnlyLogIsOneTurnAsStated ==
  (call.fn = "merge" /\ call.returned /\ AssistantOnly(call.rows)) =>
     /\ Len(call.turns) = 1
     /\ call.turns[1].role = "bot"
     /\ call.turns[1].content = Join(Contents(call.rows))

\* C13: every non-empty log with assistant records only, all of one
\* group_id, gives exactly one synthesized assistant turn, whose content is
\* the concatenation of all contents in order (no user record need precede).
AssistantOnlyLogIsOneTurn ==
  (call.fn = "merge" /\ call.returned /\ AssistantOnly(call.rows)
     /\ \A i \in 1..Len(call.rows) : call.rows[i].group_id = call.rows[1].group_id) =>
     /\ Len(call.turns) = 1
     /\ call.turns[1].role = "bot"
     /\ call.turns[1].content = Join(Contents(call.rows))

\* A log of three assistant records of one group was merged into one turn.
AssistantOnlyLogIsOneTurnWitness ==
  /\ call.fn = "merge" /\ call.returned
  /\ AssistantOnly(call.rows)
  /\ Len(call.rows) = 3
  /\ \A i \in 1..3 : call.rows[i].group_id = 2
  /\ call.rows[1].content # call.rows[2].content
  /\ Len(call.turns) = 1

\* ---- C14 (Spec)
\* The turns a history read of chat c returns for the first k rows of the
\* chat's log.
TurnsUpTo(c, k) ==
  mergeChunks(SubSeq(SelectHistory(store, c), 1, k), clock)

\* Handlers e and o of one chat computed the same group id: neither MAX
\* query saw the other's user row.
SameGroupId(e, o) ==
  /\ e # o
  /\ chatId[e] = chatId[o]
  /\ nextGroup[e] # Null
  /\ nextGroup[e] = nextGroup[o]

\* C14: concurrent handlers of one conversation can both read the maximum
\* group id before either inserts and then use the same group_id; whenever
\* chunks of two such handlers lie next to each other in the log, a history
\* read puts them, the answers to two different user messages, into one
\* assistant turn.  (The run in which this happens is reachable.)
RacedAnswersAreMerged ==
  \A c \in Chats :
    LET ids == SortIds(store, ChatIds(store, c))
        rows == SelectHistory(store, c)
    IN \A k \in 1..(Len(ids) - 1) :
         (/\ rows[k].role = "bot" /\ rows[k + 1].role = "bot"
          /\ SameGroupId(origin[ids[k]], origin[ids[k + 1]]))
           => LET before == TurnsUpTo(c, k)
                  after == TurnsUpTo(c, k + 1)
              IN /\ Len(after) = Len(before)
                 /\ after[Len(after)].content
                      = before[Len(before)].content \o rows[k + 1].content
                 /\ handleHistory(Issued(c), store, clock, TRUE).status = 200

\* Both handlers of one chat read the maximum before either inserted, both
\* ran to completion with the same group id, their chunks interleaved, and a
\* history read returned two user turns followed by one assistant turn that
\* holds both answers.
RacedAnswersAreMergedWitness ==
  /\ SameGroupId(1, 2)
  /\ \A e \in Events : pc[e] = "done" /\ resp[e].status = 200
  /\ origin = <<1, 2, 1, 2, 1, 2>>
  /\ hist.served /\ hist.response.status = 200
  /\ HistoryChatId(hist.initData.fields) = chatId[1]
  /\ Len(hist.response.messages) = 3
  /\ hist.response.messages[1].role = "user"
  /\ hist.response.messages[2].role = "user"
  /\ hist.response.messages[3].role = "bot"
  /\ Len(hist.response.messages[3].content)
       = Len(demoAnswer(text[1])) + Len(demoAnswer(text[2]))

\* ---- C15 (Spec)
\* The handler of e got as far as the MAX query and returned without a
\* group id: the query threw.
ReadFailed(e) == pc[e] = "done" /\ chatId[e] # "" /\ nextGroup[e] = Null

\* C15: when the MAX(group_id) query fails, the handler ends with an error
\* response and has stored no row (neither the user record nor a chunk) and
\* sent nothing; a group id is only ever the result of a query that
\* succeeded, one plus the maximum it read, never a default.
ReadFailureAborts ==
  /\ [](\A e \in Events :
          ReadFailed(e) =>
            /\ resp[e] = WebhookResponse(500, "store unavailable")
            /\ Persisted(e) = {}
            /\ attempts[e] = 0 /\ sent[e] = 0)
  /\ [][\A e \in Events :
          /\ (pc[e] = "read" /\ pc'[e] = "done") => (ReadFailed(e)' /\ store' = store)
          /\ nextGroup'[e] # nextGroup[e] =>
               /\ pc[e] = "read" /\ pc'[e] = "insert"
               /\ nextGroup'[e] =
                    IF ChatIds(store, chatId[e]) = {} THEN 1
                    ELSE 1 + MaxGroup(store, chatId[e])
          /\ Persisted(e)' # Persisted(e) => nextGroup[e] # Null]_vars

\* The MAX query of a handler failed for a chat that already had rows, and
\* the handler returned the error.
ReadFailureAbortsWitness ==
  \E e \in Events :
    /\ ReadFailed(e)
    /\ resp[e].status = 500
    /\ ChatIds(store, chatId[e]) # {}

\* ---- C16 (Spec)
\* The user record of an event's handler.
UserRows(e) == {i \in Persisted(e) : store[i].role = "user"}

\* The handler of e ended because the plain send threw as well.
SendFailedTwice(e) == pc[e] = "done" /\ resp[e] = WebhookResponse(500, "send failed")

\* C16: a chunk gets at most two send attempts, the formatted one first and
\* the plain one once, only after the first threw; a chunk is stored only
\* after one of its attempts completed; if the plain send throws too, the
\* handler ends with an error response, that chunk and the later ones are
\* neither sent nor stored, and the user record and the earlier chunks stay.
SendTwiceThenAbort ==
  /\ [](\A e \in Events :
          /\ attempts[e] <= 2
          /\ pc[e] = "send" => attempts[e] = 0
          /\ pc[e] = "fallback" => attempts[e] = 1
          /\ Len(ChunkRows(e)) <= sent[e]
          /\ SendFailedTwice(e) =>
               /\ attempts[e] = 2
               /\ sent[e] = chunkNo[e] - 1
               /\ Len(ChunkRows(e)) = chunkNo[e] - 1
               /\ \A k \in 1..Len(ChunkRows(e)) :
                    store[ChunkRows(e)[k]].content = Chunks(text[e])[k]
               /\ Cardinality(UserRows(e)) = 1)
  /\ [][\A e \in Events :
          /\ attempts'[e] > attempts[e] =>
               \/ attempts[e] = 0 /\ pc[e] = "send"
               \/ attempts[e] = 1 /\ pc[e] = "fallback"
          /\ sent'[e] # sent[e] =>
               (sent'[e] = sent[e] + 1 /\ attempts'[e] > attempts[e] /\ pc'[e] = "persist")
          /\ ChunkRows(e)' # ChunkRows(e) =>
               /\ pc[e] = "persist"
               /\ sent[e] = chunkNo[e]
               /\ Len(ChunkRows(e)') = chunkNo[e]
          /\ (pc[e] = "fallback" /\ pc'[e] = "done") =>
               (SendFailedTwice(e)' /\ store' = store)
          /\ pc[e] = "done" =>
               (Persisted(e)' = Persisted(e) /\ sent'[e] = sent[e]
                  /\ attempts'[e] = attempts[e])]_vars

\* Both sends of the second chunk of an answer threw: the handler returned
\* the error, its user record and its first chunk are stored, and a history
\* read showed them.
SendTwiceThenAbortWitness ==
  \E e \in Events :
    /\ SendFailedTwice(e)
    /\ chunkNo[e] = 2
    /\ Len(ChunkRows(e)) = 1
    /\ hist.served /\ hist.response.status = 200
    /\ Len(hist.response.messages) >= 2

\* ---- C17 (MergeSpec)
\* C17: when an assistant record of another group_id begins a new run while
\* the buffer is non-empty, the turn flushed carries the created_at of that
\* incoming record; a buffer still non-empty after the last record is
\* flushed with the time of the call.
RunFlushTimes ==
  (call.fn = "merge" /\ call.returned) =>
     LET rows == call.rows
     IN \A i \in 1..Len(rows) :
          RunStart(rows, i) =>
            LET j == RunEnd(rows, i)
                turn == call.turns[TurnOf(rows, i)]
            IN /\ (j < Len(rows) /\ rows[j + 1].role = "bot")
                    => turn.created_at = rows[j + 1].created_at
               /\ j = Len(rows) => turn.created_at = call.now

\* A log of three assistant records in which the third begins a new run:
\* one turn was flushed by the third record, one at the end of the loop.
RunFlushTimesWitness ==
  /\ call.fn = "merge" /\ call.returned
  /\ Len(call.rows) = 3
  /\ AssistantOnly(call.rows)
  /\ call.rows[1].group_id = call.rows[2].group_id
  /\ call.rows[2].group_id # call.rows[3].group_id
  /\ Len(call.turns) = 2
  /\ call.turns[1].created_at = call.rows[3].created_at
  /\ call.turns[2].created_at = call.now

\* ---- C18 (Spec)
\* The rows of chat c, in the order of the store.
OfChat(s, c) == SelectSeq(s, LAMBDA row : row.chat_id = c)

\* What a history read of chat c returns for store s at time now, without
\* the times of the synthesized turns.
HistoryShown(c, s, now) == Shown(handleHistory(Issued(c), s, now, TRUE).messages)

\* C18: a step of the handler of an event of conversation A adds only rows
\* keyed by A, the group id it computes is determined by A's rows alone, and
\* what a history read of any other conversation returns is the same before
\* and after the step (the times of synthesized turns aside).
WritesAreConversationScoped ==
  [][\A e \in Events :
       pc'[e] # pc[e] =>
         /\ \A i \in (Len(store) + 1)..Len(store') :
              /\ origin'[i] = e
              /\ store'[i].chat_id = chatId[e]
              /\ store'[i].group_id = nextGroup[e]
         /\ nextGroup'[e] # nextGroup[e] =>
              nextGroup'[e] =
                LET mine == OfChat(store, chatId[e])
                IN IF mine = <<>> THEN 1
                   ELSE 1 + (CHOOSE g \in {mine[i].group_id : i \in 1..Len(mine)} :
                               \A i \in 1..Len(mine) : mine[i].group_id <= g)
         /\ \A c \in Chats \ {chatId'[e]} :
              /\ OfChat(store', c) = OfChat(store, c)
              /\ HistoryShown(c, store', clock') = HistoryShown(c, store, clock)]_vars

\* Two conversations hold rows: the handler of the second event computed
\* group id 1 for its own chat although the other chat has rows, stored its
\* user record and a chunk, and a history read of the other chat returned
\* that chat's two turns.
WritesAreConversationScopedWitness ==
  /\ chatId[1] # "" /\ chatId[2] # "" /\ chatId[1] # chatId[2]
  /\ pc[1] = "done" /\ resp[1].status = 200
  /\ nextGroup[2] = 1
  /\ Cardinality(Persisted(2)) >= 2
  /\ hist.served /\ hist.response.status = 200
  /\ HistoryChatId(hist.initData.fields) = chatId[1]
  /\ Len(hist.response.messages) = 2

\* ---- C19 (FairReadSpec)
\* The messages of the errors that reach the catch of handleRequest.
WebhookErrors == {"TypeError", "store unavailable", "send failed"}
HistoryErrors == {"SyntaxError", "store unavailable"}

\* Every request the worker has finished has a response, and a 500 response
\* carries the message of an error.
RequestsAnswered ==
  /\ \A e \in Events :
       /\ pc[e] = "done" <=> resp[e] # Pending
       /\ pc[e] = "done" =>
            \/ resp[e].status = 200 /\ resp[e].body \in {"ok", "skipped"}
            \/ resp[e].status = 500 /\ resp[e].body \in WebhookErrors
  /\ hist.served =>
       LET r == hist.response
       IN /\ r.status \in {200, 400, 401, 500}
          /\ r.status = 500 <=> r.error \in HistoryErrors
          /\ (r.read /\ r.status # 200) => (r.status = 500 /\ r.error = "store unavailable")
          /\ (SignatureVerifies(hist.initData) /\ hist.initData.fields.user.json = "invalid")
               => (r.status = 500 /\ r.error = "SyntaxError")

\* The places of a handler between two awaits.
InFlight == {"read", "insert", "send", "fallback", "persist"}

\* A step in which a handler stops does so with a response; if it stops
\* early (after the MAX query, an insert or a send without the row or the
\* send it was about to make, or on a message with a text and no chat) the
\* response is a 500 that carries the error's message.
ThrowsBecomeErrorResponses ==
  \A e \in Events :
    (pc'[e] # pc[e] /\ pc'[e] \notin InFlight) =>
      /\ pc'[e] = "done"
      /\ resp'[e] # Pending
      /\ (\/ pc[e] \in {"read", "fallback"}
          \/ pc[e] \in {"insert", "persist"} /\ store' = store
          \/ pc[e] = "new" /\ got'[e] = "text")
           => (resp'[e].status = 500 /\ resp'[e].body \in WebhookErrors)

\* C19 as stated, for the finished requests: each has a response, and an
\* exception raised while a request is handled, the one of a request body
\* that is not JSON included, has become a 500 response.
EveryExceptionIsAnErrorResponseAsStated ==
  /\ RequestsAnswered
  /\ \A e \in Events :
       (pc[e] = "done" /\ got[e] = "not json") => resp[e].status = 500

\* C19: every request ends with a response; every exception that leaves
\* handleHistory or handleWebhook (store unavailable, both sends of a chunk
\* throwing, a user field that is not JSON, a message without a chat) becomes
\* a 500 response with the error's message; a webhook body that is not JSON
\* raises none: it is answered with success.
EveryEscapingExceptionIsAnErrorResponse ==
  /\ []RequestsAnswered
  /\ [][ThrowsBecomeErrorResponses]_vars
  /\ [](\A e \in Events :
          (pc[e] = "done" /\ got[e] = "not json") => resp[e] = WebhookResponse(200, "ok"))
  /\ \A e \in Events : (pc[e] # "new") ~> (pc[e] = "done")

\* One handler ended on a store error, the other on two failed sends, and a
\* history request with a verified payload whose user field is not JSON was
\* answered 500.
EveryEscapingExceptionIsAnErrorResponseWitness ==
  /\ \E e \in Events : pc[e] = "done" /\ resp[e] = WebhookResponse(500, "store unavailable")
  /\ \E e \in Events : pc[e] = "done" /\ resp[e] = WebhookResponse(500, "send failed")
  /\ hist.served
  /\ hist.response.status = 500 /\ hist.response.error = "SyntaxError"

====
